---- MODULE Spec2Model ----
(***************************************************************************)
(* A model of the Random.org JSON-RPC client (package randomorg):          *)
(* the request orchestrator requestCommand, the envelope decoding of       *)
(* invokeRequest, the usage cache (parseAndSaveUsage, GetUsage, Usage) and *)
(* the six typed generators.                                               *)
(*                                                                         *)
(* Strings are sequences of lexemes (single characters, or longer pieces   *)
(* such as a date where the code never looks inside them).  A JSON number  *)
(* is kept as twice its value, so that halves are representable and the    *)
(* float64 -> int conversions of the code truncate something.              *)
(***************************************************************************)
EXTENDS Integers, Sequences, FiniteSets, TLC

VARIABLES
  heap,     \* the Usage objects allocated so far: object id -> Usage struct
  rUsage,   \* Random.usage: 0 is the nil pointer, otherwise an object id
  seen,     \* history: quota fields present in some merged result so far
  pc,       \* sequential client: "idle", "GetUsage" (inside GetUsage) or "panic"
  posts,    \* HTTP POSTs issued by the current (or last) public operation
  call,     \* the step just taken: operation, arguments, response consumed
  ret,      \* what the last returned public operation handed to its caller
  twice,    \* history: the last two merges were consecutive and of one result
  gor       \* concurrent client: the goroutines inside requestCommand

vars == <<heap, rUsage, seen, pc, posts, call, ret, twice, gor>>

(***************************************************************************)
(* Bounds of the model.                                                    *)
(***************************************************************************)
\* Most dedicated getUsage queries one GetUsage call is followed through.
MaxQueries == 3

(***************************************************************************)
(* JSON values as encoding/json decodes them into interface{}.             *)
(***************************************************************************)
\* nil: a key that is absent, or present with the JSON value null.
Null == [t |-> "null"]
\* float64 holding k/2.
Half(k) == [t |-> "num", twice |-> k]
Num(n) == Half(2 * n)
Str(s) == [t |-> "str", s |-> s]
Arr(a) == [t |-> "arr", a |-> a]
Obj(o) == [t |-> "obj", o |-> o]

\* int(f) and int64(f) of a float64 f = k/2: truncation toward zero.
ToInt(k) == IF k >= 0 THEN k \div 2 ELSE -((-k) \div 2)

(***************************************************************************)
(* The usage snapshot.                                                     *)
(***************************************************************************)
QuotaFields == <<"status", "creationTime", "bitsLeft", "requestsLeft", "totalBits", "totalRequests">>

AllFields == {QuotaFields[i] : i \in 1..Len(QuotaFields)}

\* The zero time.Time.
ZeroTime == <<"0001-01-01", "00:00:00">>

\* Usage{}: the zero value of the struct.
ZeroUsage ==
  [Status |-> <<>>, CreationTime |-> ZeroTime, BitsLeft |-> 0, RequestLeft |-> 0,
   TotalBits |-> 0, TotalRequests |-> 0, isComplete |-> FALSE]

\* strings.Replace(s, old, new, 1): the first occurrence only.
Replace1(s, old, new) ==
  IF \E i \in 1..Len(s) : s[i] = old
    THEN LET i == CHOOSE i \in 1..Len(s) : s[i] = old /\ \A j \in 1..(i - 1) : s[j] # old
         IN [s EXCEPT ![i] = new]
    ELSE s

Dates == {"2013-02-20", "2015-06-01"}
Times == {"17:53:40"}
Zones == {"Z"}

\* time.Parse(time.RFC3339Nano, s): date, "T", time of day, zone.
ParseOK(s) == Len(s) = 4 /\ s[1] \in Dates /\ s[2] = "T" /\ s[3] \in Times /\ s[4] \in Zones
ParseTime(s) == <<s[1], s[3]>>

\* SetQuotaField with a slip: the total of requests is added up, not stored.
SetQuotaField_Accumulate(st, f, v) ==
  IF st.panicked THEN st
  ELSE IF v.t = "null" THEN [st EXCEPT !.isComplete = FALSE]
  ELSE IF f = "status" THEN
    IF v.t = "str" THEN [st EXCEPT !.u.Status = v.s] ELSE [st EXCEPT !.panicked = TRUE]
  ELSE IF f = "creationTime" THEN
    IF v.t # "str" THEN [st EXCEPT !.panicked = TRUE]
    ELSE LET s == Replace1(v.s, " ", "T")
         IN IF ParseOK(s) THEN [st EXCEPT !.u.CreationTime = ParseTime(s)]
            ELSE [st EXCEPT !.panicked = TRUE]
  ELSE IF v.t # "num" THEN [st EXCEPT !.panicked = TRUE]
  ELSE IF f = "bitsLeft" THEN [st EXCEPT !.u.BitsLeft = ToInt(v.twice)]
  ELSE IF f = "requestsLeft" THEN [st EXCEPT !.u.RequestLeft = ToInt(v.twice)]
  ELSE IF f = "totalBits" THEN [st EXCEPT !.u.TotalBits = ToInt(v.twice)]
  ELSE [st EXCEPT !.u.TotalRequests = @ + ToInt(v.twice)]

\* One of the six "if x != nil { usage.X = ... } else { isComplete = false }"
\* blocks of parseAndSaveUsage, on st = [u, isComplete, panicked].
\* A failed type assertion and panic(err) abort the function.
SetQuotaField(st, f, v) ==
  IF st.panicked THEN st
  ELSE IF v.t = "null" THEN [st EXCEPT !.isComplete = FALSE]
  ELSE IF f = "status" THEN
    IF v.t = "str" THEN [st EXCEPT !.u.Status = v.s] ELSE [st EXCEPT !.panicked = TRUE]
  ELSE IF f = "creationTime" THEN
    IF v.t # "str" THEN [st EXCEPT !.panicked = TRUE]
    ELSE LET s == Replace1(v.s, " ", "T")
         IN IF ParseOK(s) THEN [st EXCEPT !.u.CreationTime = ParseTime(s)]
            ELSE [st EXCEPT !.panicked = TRUE]
  ELSE IF v.t # "num" THEN [st EXCEPT !.panicked = TRUE]
  ELSE IF f = "bitsLeft" THEN [st EXCEPT !.u.BitsLeft = ToInt(v.twice)]
  ELSE IF f = "requestsLeft" THEN [st EXCEPT !.u.RequestLeft = ToInt(v.twice)]
  ELSE IF f = "totalBits" THEN [st EXCEPT !.u.TotalBits = ToInt(v.twice)]
  ELSE [st EXCEPT !.u.TotalRequests = ToInt(v.twice)]

RECURSIVE MergeFields(_, _, _)
\* The six blocks in source order, from field number i on.
MergeFields(st, json, i) ==
  IF i > Len(QuotaFields) THEN st
  ELSE MergeFields(SetQuotaField(st, QuotaFields[i], json[QuotaFields[i]]), json, i + 1)

\* The object id a goroutine allocates for "usage := &Usage{}".
NewId(g) == g

\* parseAndSaveUsage with a slip: the local usage never takes over r.usage,
\* so every call starts from an empty snapshot.
parseAndSaveUsage_Fresh(h, p, json, g) ==
  LET id == IF p # 0 THEN p ELSE NewId(g)
      st == MergeFields([u |-> ZeroUsage, isComplete |-> TRUE, panicked |-> FALSE], json, 1)
  IN IF st.panicked
       THEN [heap |-> h, rUsage |-> p, panicked |-> TRUE]
       ELSE [heap |-> [h EXCEPT ![id] = [st.u EXCEPT !.isComplete = st.isComplete]],
             rUsage |-> id, panicked |-> FALSE]

\* parseAndSaveUsage run without interruption by goroutine g on heap h and
\* pointer p.  The local usage aliases r.usage when that is not nil, so the
\* writes before a panic stay in the cached object.
parseAndSaveUsage(h, p, json, g) ==
  LET id == IF p # 0 THEN p ELSE NewId(g)
      u0 == IF p # 0 THEN h[p] ELSE ZeroUsage
      st == MergeFields([u |-> u0, isComplete |-> TRUE, panicked |-> FALSE], json, 1)
  IN IF st.panicked
       THEN [heap |-> IF p # 0 THEN [h EXCEPT ![p] = st.u] ELSE h, rUsage |-> p, panicked |-> TRUE]
       ELSE [heap |-> [h EXCEPT ![id] = [st.u EXCEPT !.isComplete = st.isComplete]],
             rUsage |-> id, panicked |-> FALSE]

\* The quota fields a result object carries.
Present(json) == {f \in AllFields : json[f].t # "null"}

(***************************************************************************)
(* Errors.  An error value is its kind and its text.                       *)
(***************************************************************************)
NoErr == [kind |-> "nil", text |-> <<>>]
ErrJSONFormat == [kind |-> "ErrJSONFormat", text |-> <<"could not get key from given json">>]
ErrParamRange == [kind |-> "ErrParamRange", text |-> <<"invalid parameter range">>]
\* The errors of http.Client.Do, ioutil.ReadAll and json.Unmarshal.
NetErr(kind) == [kind |-> kind, text |-> <<kind>>]

(***************************************************************************)
(* fmt.Errorf(errAPI, code, message) with errAPI = "API Error Code %v: %q."*)
(***************************************************************************)
DigitChar(d) == <<"0", "1", "2", "3", "4", "5", "6", "7", "8", "9">>[d + 1]

RECURSIVE Digits(_)
\* The decimal digits of a natural number.
Digits(n) == IF n < 10 THEN <<DigitChar(n)>> ELSE Digits(n \div 10) \o <<DigitChar(n % 10)>>

RECURSIVE StripZeros(_)
\* The shortest digit string: no trailing zeros.
StripZeros(d) ==
  IF Len(d) > 1 /\ d[Len(d)] = "0" THEN StripZeros(SubSeq(d, 1, Len(d) - 1)) ELSE d

\* %v of the float64 k/2: strconv.FormatFloat(f, 'g', -1, 64).
FormatFloat(k) ==
  LET a == IF k < 0 THEN -k ELSE k
      ip == a \div 2
      frac == IF a % 2 = 1 THEN <<"5">> ELSE <<>>
      sign == IF k < 0 THEN <<"-">> ELSE <<>>
      dp == IF ip = 0 THEN 0 ELSE Len(Digits(ip))
      digs == IF ip = 0 THEN (IF frac = <<>> THEN <<"0">> ELSE frac)
              ELSE StripZeros(Digits(ip) \o frac)
      exp == IF a = 0 THEN 0 ELSE dp - 1
      e2 == IF exp < 10 THEN <<"0">> \o Digits(exp) ELSE Digits(exp)
  IN IF exp >= 6  \* the shortest %g switches to %e from the exponent 6 on
       THEN sign \o <<digs[1]>>
            \o (IF Len(digs) > 1 THEN <<".">> \o SubSeq(digs, 2, Len(digs)) ELSE <<>>)
            \o <<"e", "+">> \o e2
       ELSE sign \o Digits(ip) \o (IF frac = <<>> THEN <<>> ELSE <<".">> \o frac)

\* strconv.Quote's escape of one character ("\n" is the newline).
EscapeChar(c) ==
  IF c = "\"" THEN <<"\\", "\"">>
  ELSE IF c = "\\" THEN <<"\\", "\\">>
  ELSE IF c = "\n" THEN <<"\\", "n">>
  ELSE <<c>>

RECURSIVE EscapeAll(_)
EscapeAll(s) == IF s = <<>> THEN <<>> ELSE EscapeChar(Head(s)) \o EscapeAll(Tail(s))

\* strconv.Quote: a double-quoted Go string literal.
Quote(s) == <<"\"">> \o EscapeAll(s) \o <<"\"">>

\* The verb %v on a decoded JSON scalar (nil, float64 or string).
FormatV(v) ==
  CASE v.t = "null" -> <<"<nil>">>
    [] v.t = "num" -> FormatFloat(v.twice)
    [] v.t = "str" -> v.s

\* The verb %q on a decoded JSON scalar; only a string has a quoted form.
FormatQ(v) ==
  CASE v.t = "null" -> <<"%!q(<nil>)">>
    [] v.t = "num" -> <<"%!q(float64=">> \o FormatFloat(v.twice) \o <<")">>
    [] v.t = "str" -> Quote(v.s)

\* fmt.Errorf(errAPI, errorCode, errorMessage).
APIError(code, message) ==
  [kind |-> "api",
   text |-> <<"API Error Code ">> \o FormatV(code) \o <<": ">> \o FormatQ(message) \o <<".">>]

(***************************************************************************)
(* Envelope decoding and the request orchestrator.                         *)
(***************************************************************************)
\* jsonMap: the object under key, or ErrJSONFormat when the key is absent,
\* null or not an object.
jsonMap(json, key) ==
  LET value == json[key]
  IN IF value.t = "null" THEN [err |-> ErrJSONFormat, map |-> <<>>]
     ELSE IF value.t # "obj" THEN [err |-> ErrJSONFormat, map |-> <<>>]
     ELSE [err |-> NoErr, map |-> value.o]

\* client.Do with a slip: a failed POST is sent a second time.
clientDo_Again(resp) ==
  [posts |-> IF resp.net = "transport" THEN 2 ELSE 1, failed |-> resp.net = "transport"]

\* r.client.Do(req), called once: the POSTs it sends and whether it failed.
clientDo(resp) == [posts |-> 1, failed |-> resp.net = "transport"]

\* invokeRequest, from the response resp = [net, body] the POST meets:
\* net names the step that failed ("ok": the body decoded to an object).
invokeRequest(resp) ==
  LET do == clientDo(resp)
  IN IF do.failed \/ resp.net # "ok"
       THEN [err |-> NetErr(resp.net), result |-> <<>>, posts |-> do.posts]
     ELSE LET res == jsonMap(resp.body, "result")
          IN IF res.err # NoErr
               THEN LET e == jsonMap(resp.body, "error")
                    IN IF e.err # NoErr
                         THEN [err |-> e.err, result |-> <<>>, posts |-> do.posts]
                         ELSE [err |-> APIError(e.map["code"], e.map["message"]),
                               result |-> <<>>, posts |-> do.posts]
               ELSE [err |-> NoErr, result |-> res.map, posts |-> do.posts]

\* requestCommand with a slip: the random block is looked up before the
\* merge, so a result without one is never merged.
requestCommand_ExtractFirst(h, p, resp, g) ==
  LET inv == invokeRequest(resp)
  IN IF inv.err # NoErr
       THEN [heap |-> h, rUsage |-> p, merged |-> FALSE, panicked |-> FALSE,
             err |-> inv.err, data |-> <<>>, posts |-> inv.posts]
       ELSE LET random == jsonMap(inv.result, "random")
                ps == parseAndSaveUsage(h, p, inv.result, g)
            IN IF random.err # NoErr
                 THEN [heap |-> h, rUsage |-> p, merged |-> FALSE,
                       panicked |-> FALSE, err |-> random.err, data |-> <<>>, posts |-> inv.posts]
               ELSE IF ps.panicked
                 THEN [heap |-> ps.heap, rUsage |-> ps.rUsage, merged |-> FALSE,
                       panicked |-> TRUE, err |-> NoErr, data |-> <<>>, posts |-> inv.posts]
               ELSE IF random.map["data"].t # "arr"
                 THEN [heap |-> ps.heap, rUsage |-> ps.rUsage, merged |-> TRUE,
                       panicked |-> TRUE, err |-> NoErr, data |-> <<>>, posts |-> inv.posts]
               ELSE [heap |-> ps.heap, rUsage |-> ps.rUsage, merged |-> TRUE,
                     panicked |-> FALSE, err |-> NoErr, data |-> random.map["data"].a,
                     posts |-> inv.posts]

\* requestCommand run without interruption by goroutine g: what it leaves in
\* the cache, whether parseAndSaveUsage ran to its end (merged), whether the
\* goroutine panicked, and the (data, err) pair it returns otherwise.
requestCommand(h, p, resp, g) ==
  LET inv == invokeRequest(resp)
  IN IF inv.err # NoErr
       THEN [heap |-> h, rUsage |-> p, merged |-> FALSE, panicked |-> FALSE,
             err |-> inv.err, data |-> <<>>, posts |-> inv.posts]
       ELSE LET ps == parseAndSaveUsage(h, p, inv.result, g)
                random == jsonMap(inv.result, "random")
            IN IF ps.panicked
                 THEN [heap |-> ps.heap, rUsage |-> ps.rUsage, merged |-> FALSE,
                       panicked |-> TRUE, err |-> NoErr, data |-> <<>>, posts |-> inv.posts]
               ELSE IF random.err # NoErr
                 THEN [heap |-> ps.heap, rUsage |-> ps.rUsage, merged |-> TRUE,
                       panicked |-> FALSE, err |-> random.err, data |-> <<>>, posts |-> inv.posts]
               ELSE IF random.map["data"].t # "arr"
                 THEN [heap |-> ps.heap, rUsage |-> ps.rUsage, merged |-> TRUE,
                       panicked |-> TRUE, err |-> NoErr, data |-> <<>>, posts |-> inv.posts]
               ELSE [heap |-> ps.heap, rUsage |-> ps.rUsage, merged |-> TRUE,
                     panicked |-> FALSE, err |-> NoErr, data |-> random.map["data"].a,
                     posts |-> inv.posts]

(***************************************************************************)
(* What the service may answer.                                            *)
(***************************************************************************)
sRunning == <<"r", "u", "n", "n", "i", "n", "g">>
sPaused == <<"p", "a", "u", "s", "e", "d">>
\* creationTime as the service sends it: a space between date and time.
sCreated == <<"2013-02-20", " ", "17:53:40", "Z">>
sCreatedT == <<"2015-06-01", "T", "17:53:40", "Z">>
sNoTime == <<"y", "e", "s", "t", "e", "r", "d", "a", "y">>

\* A well-formed value for each quota field.
GoodVal(f) ==
  CASE f = "status" -> Str(sRunning)
    [] f = "creationTime" -> Str(sCreated)
    [] f = "bitsLeft" -> Num(100)
    [] f = "requestsLeft" -> Num(50)
    [] f = "totalBits" -> Num(7)
    [] f = "totalRequests" -> Num(3)

\* The quota fields of a result: those of S, well formed.
QPart(S) == [f \in AllFields |-> IF f \in S THEN GoodVal(f) ELSE Null]

\* All six, with other values (bitsLeft 99.5, a total of -1.5).
QOther ==
  [f \in AllFields |->
     CASE f = "status" -> Str(sPaused)
       [] f = "creationTime" -> Str(sCreatedT)
       [] f = "bitsLeft" -> Half(199)
       [] f = "requestsLeft" -> Num(49)
       [] f = "totalBits" -> Half(-3)
       [] f = "totalRequests" -> Num(4)]

WellFormedQuota ==
  {QPart({}), QPart({"bitsLeft"}), QPart({"requestsLeft"}), QPart(AllFields),
   QPart(AllFields \ {"status"}), QPart({"status", "creationTime"}),
   QPart({"totalBits", "totalRequests"}), QOther}

\* Quota fields of the wrong shape.
MalformedQuota ==
  {[QPart(AllFields) EXCEPT !["status"] = Num(1)],
   [QPart({"bitsLeft"}) EXCEPT !["creationTime"] = Str(sNoTime)],
   [QPart({"status"}) EXCEPT !["creationTime"] = Num(5)],
   [QPart({"bitsLeft"}) EXCEPT !["totalRequests"] = Str(sRunning)]}

sA == <<"a">>
sB == <<"b">>

\* A random block whose data array holds two numbers.
GoodRandom == Obj([data |-> Arr(<<Num(3), Num(4)>>)])

\* The random member of a result: absent, not an object, without data, with
\* data that is no array, and with arrays of several shapes.
RandomParts ==
  {Null, Str(sA), Obj([data |-> Null]), Obj([data |-> Str(sA)]),
   GoodRandom,
   Obj([data |-> Arr(<<Str(sA), Str(sB)>>)]),
   Obj([data |-> Arr(<<Num(3)>>)]),
   Obj([data |-> Arr(<<Num(3), Str(sA)>>)]),
   Obj([data |-> Arr(<<Num(99), Half(9)>>)]),
   Obj([data |-> Arr(<<>>)])}

\* A result object: the quota fields q and the random member.
ResultObj(q, random) ==
  [f \in AllFields \cup {"random"} |-> IF f = "random" THEN random ELSE q[f]]

\* A response whose body decoded to a JSON object with these two members.
OkResp(result, error) == [net |-> "ok", body |-> [result |-> result, error |-> error]]

NoResp == [net |-> "none", body |-> [result |-> Null, error |-> Null]]

\* client.Do, ioutil.ReadAll or json.Unmarshal failed.
NetFailures ==
  {[net |-> k, body |-> [result |-> Null, error |-> Null]] : k \in {"transport", "read", "unmarshal"}}

ErrObj(code, message) == Obj([code |-> code, message |-> message])

sInvalidKey == <<"I", "n", "v", "a", "l", "i", "d", " ", "A", "P", "I", " ", "k", "e", "y", ".">>
sQuoted == <<"n", "o", " ", "\"", "k", "\"">>
sSlashed == <<"a", "\\", "b", "\n">>

\* Error envelopes: no object-valued result, an error object.
ErrorEnvelopes ==
  {OkResp(Null, ErrObj(Num(202), Str(sInvalidKey))),
   OkResp(Null, ErrObj(Num(-32600), Str(sQuoted))),
   OkResp(Null, ErrObj(Num(1000000), Str(sInvalidKey))),
   OkResp(Str(sA), ErrObj(Half(405), Str(sSlashed))),
   OkResp(Null, ErrObj(Null, Null)),
   OkResp(Null, ErrObj(Str(sA), Num(5)))}

\* Bodies with neither an object-valued result nor an object-valued error.
BadEnvelopes == {OkResp(Null, Null), OkResp(Str(sA), Null), OkResp(Null, Str(sA))}

\* Bodies with an object-valued result.
ResultResponses ==
  {OkResp(Obj(ResultObj(q, GoodRandom)), Null) : q \in WellFormedQuota \cup MalformedQuota}
  \cup {OkResp(Obj(ResultObj(q, r)), Null) : q \in {QPart({}), QPart(AllFields)}, r \in RandomParts}
  \cup {OkResp(Obj(ResultObj(QPart({"bitsLeft"}), Null)), ErrObj(Num(202), Str(sInvalidKey)))}

Responses == NetFailures \cup ErrorEnvelopes \cup BadEnvelopes \cup ResultResponses

\* A few responses of each kind.
FewResponses ==
  {[net |-> "transport", body |-> [result |-> Null, error |-> Null]],
   OkResp(Null, ErrObj(Num(202), Str(sInvalidKey))),
   OkResp(Obj(ResultObj(QPart({}), GoodRandom)), Null),
   OkResp(Obj(ResultObj(QPart({}), Obj([data |-> Arr(<<Str(sA), Str(sB)>>)]))), Null),
   OkResp(Obj(ResultObj(QPart({}), Null)), Null)}

(***************************************************************************)
(* The generators' local validation and element coercion.                  *)
(***************************************************************************)
IntegersParamsOK(a) ==
  /\ ~(a.n < 1 \/ a.n > 10000)
  /\ ~(a.min < -1000000000 \/ a.min > 1000000000 \/ a.max < -1000000000 \/ a.max > 1000000000)

DecimalFractionsParamsOK(a) ==
  /\ ~(a.n < 1 \/ a.n > 10000)
  /\ ~(a.decimalPlaces < 1 \/ a.decimalPlaces > 20)

GaussiansParamsOK(a) ==
  /\ ~(a.n < 1 \/ a.n > 10000)
  /\ ~(a.mean < -1000000 \/ a.mean > 1000000)
  /\ ~(a.standardDeviation < -1000000 \/ a.standardDeviation > 1000000)
  /\ ~(a.significantDigits < 2 \/ a.significantDigits > 20)

StringsParamsOK(a) ==
  /\ ~(a.n < 1 \/ a.n > 10000)
  /\ ~(a.length < 1 \/ a.length > 20)
  /\ ~(Len(a.characters) < 1 \/ Len(a.characters) > 80)

UUIDsParamsOK(a) == ~(a.n < 1 \/ a.n > 1000)

\* The validation of GenerateBlobs with a slip: no test of size%8.
BlobsParamsOK_AnySize(a) ==
  /\ ~(a.n < 1 \/ a.n > 100)
  /\ ~(a.size < 1 \/ a.size > 1048576)

BlobsParamsOK(a) ==
  /\ ~(a.n < 1 \/ a.n > 100)
  /\ ~(a.size < 1 \/ a.size > 1048576 \/ a.size % 8 # 0)

\* The "for i, value := range values" loop of a generator: each element is
\* type-asserted to float64 (kinds "int", "float") or string (kind "string");
\* a failed assertion panics.
Coerce(kind, values) ==
  LET want == IF kind = "string" THEN "str" ELSE "num"
  IN IF \E i \in 1..Len(values) : values[i].t # want
       THEN [panicked |-> TRUE, values |-> <<>>]
       ELSE [panicked |-> FALSE,
             values |-> [i \in 1..Len(values) |->
                           IF kind = "int" THEN ToInt(values[i].twice)
                           ELSE IF kind = "float" THEN [twice |-> values[i].twice]
                           ELSE values[i].s]]

(***************************************************************************)
(* The sequential client: one caller, one public operation at a time.      *)
(***************************************************************************)
ObjIds == {1, 2}

\* The test of Usage with a slip: any snapshot counts, complete or not.
CacheComplete_AnySnapshot(h, p) == p # 0

\* r.usage != nil && r.usage.isComplete
CacheComplete(h, p) == p # 0 /\ h[p].isComplete

NoRet(op) == [op |-> op, returned |-> FALSE, err |-> NoErr, data |-> <<>>, usage |-> ZeroUsage]

Returns(op, err, data, u) == [op |-> op, returned |-> TRUE, err |-> err, data |-> data, usage |-> u]

\* Whether a step merged the result object the previous step merged.
SameMergeAgain(c, resp) == c.merged /\ c.resp.body.result = resp.body.result

\* A generator: validation, then requestCommand, then coercion.
Generate(op, a, ok, kind, R) ==
  /\ pc = "idle"
  /\ \/ /\ ~ok
        /\ call' = [op |-> op, args |-> a, sent |-> FALSE, resp |-> NoResp, merged |-> FALSE]
        /\ ret' = Returns(op, ErrParamRange, <<>>, ZeroUsage)
        /\ posts' = 0
        /\ pc' = "idle"
        /\ twice' = FALSE
        /\ UNCHANGED <<heap, rUsage, seen, gor>>
     \/ /\ ok
        /\ \E resp \in R :
             \E rc \in {requestCommand(heap, rUsage, resp, 1)} :
             \E co \in {IF rc.panicked \/ rc.err # NoErr
                          THEN [panicked |-> rc.panicked, values |-> <<>>]
                          ELSE Coerce(kind, rc.data)} :
                /\ heap' = rc.heap
                /\ rUsage' = rc.rUsage
                /\ seen' = IF rc.merged THEN seen \cup Present(resp.body.result.o) ELSE seen
                /\ call' = [op |-> op, args |-> a, sent |-> TRUE, resp |-> resp, merged |-> rc.merged]
                /\ twice' = (rc.merged /\ SameMergeAgain(call, resp))
                /\ posts' = rc.posts
                /\ pc' = IF co.panicked THEN "panic" ELSE "idle"
                /\ ret' = IF co.panicked THEN NoRet(op) ELSE Returns(op, rc.err, co.values, ZeroUsage)
                /\ UNCHANGED gor

GenerateIntegers(A, R) ==
  \E a \in A : Generate("GenerateIntegers", a, IntegersParamsOK(a), "int", R)

GenerateDecimalFractions(A, R) ==
  \E a \in A : Generate("GenerateDecimalFractions", a, DecimalFractionsParamsOK(a), "float", R)

GenerateGaussians(A, R) ==
  \E a \in A : Generate("GenerateGaussians", a, GaussiansParamsOK(a), "float", R)

GenerateStrings(A, R) ==
  \E a \in A : Generate("GenerateStrings", a, StringsParamsOK(a), "string", R)

GenerateUUIDs(A, R) ==
  \E a \in A : Generate("GenerateUUIDs", a, UUIDsParamsOK(a), "string", R)

GenerateBlobs(A, R) ==
  \E a \in A : Generate("GenerateBlobs", a, BlobsParamsOK(a), "string", R)

\* The caller enters GetUsage; its dedicated query is the next step.
GetUsage ==
  /\ pc = "idle"
  /\ pc' = "GetUsage"
  /\ posts' = 0
  /\ call' = [op |-> "GetUsage", args |-> <<>>, sent |-> FALSE, resp |-> NoResp, merged |-> FALSE]
  /\ ret' = NoRet("GetUsage")
  /\ twice' = FALSE
  /\ UNCHANGED <<heap, rUsage, seen, gor>>

\* Usage with a slip: the cache is never consulted.
Usage_AlwaysQuery ==
  /\ pc = "idle"
  /\ call' = [op |-> "Usage", args |-> <<>>, sent |-> FALSE, resp |-> NoResp, merged |-> FALSE]
  /\ posts' = 0
  /\ twice' = FALSE
  /\ pc' = "GetUsage"
  /\ ret' = NoRet("Usage")
  /\ UNCHANGED <<heap, rUsage, seen, gor>>

\* Usage: the cached snapshot when it is complete, otherwise GetUsage.
Usage ==
  /\ pc = "idle"
  /\ call' = [op |-> "Usage", args |-> <<>>, sent |-> FALSE, resp |-> NoResp, merged |-> FALSE]
  /\ posts' = 0
  /\ twice' = FALSE
  /\ IF CacheComplete(heap, rUsage)
       THEN pc' = "idle" /\ ret' = Returns("Usage", NoErr, <<>>, heap[rUsage])
       ELSE pc' = "GetUsage" /\ ret' = NoRet("Usage")
  /\ UNCHANGED <<heap, rUsage, seen, gor>>

\* One round of GetUsage: requestCommand("getUsage"), the error test, and
\* the call of Usage, which returns the snapshot or calls GetUsage again.
GetUsageQuery(R) ==
  /\ pc = "GetUsage"
  /\ posts < MaxQueries
  /\ \E resp \in R :
       \E rc \in {requestCommand(heap, rUsage, resp, 1)} :
          /\ heap' = rc.heap
          /\ rUsage' = rc.rUsage
          /\ seen' = IF rc.merged THEN seen \cup Present(resp.body.result.o) ELSE seen
          /\ call' = [call EXCEPT !.sent = TRUE, !.resp = resp, !.merged = rc.merged]
          /\ twice' = (rc.merged /\ SameMergeAgain(call, resp))
          /\ posts' = posts + rc.posts
          /\ IF rc.panicked
               THEN pc' = "panic" /\ ret' = NoRet(call.op)
             ELSE IF rc.err # NoErr /\ rc.err # ErrJSONFormat
               THEN pc' = "idle" /\ ret' = Returns(call.op, rc.err, <<>>, ZeroUsage)
             ELSE IF CacheComplete(rc.heap, rc.rUsage)
               THEN pc' = "idle" /\ ret' = Returns(call.op, NoErr, <<>>, rc.heap[rc.rUsage])
             ELSE pc' = "GetUsage" /\ ret' = NoRet(call.op)
          /\ UNCHANGED gor

\* Arguments of the generators: a valid tuple and an invalid one each.
CoreIntegers == {[n |-> 2, min |-> 0, max |-> 5], [n |-> 0, min |-> 0, max |-> 5]}
CoreDecimalFractions == {[n |-> 2, decimalPlaces |-> 2], [n |-> 2, decimalPlaces |-> 21]}
CoreGaussians ==
  {[n |-> 2, mean |-> 0, standardDeviation |-> 1, significantDigits |-> 2],
   [n |-> 2, mean |-> 0, standardDeviation |-> 1, significantDigits |-> 1]}
CoreStrings == {[n |-> 2, length |-> 1, characters |-> sA], [n |-> 2, length |-> 1, characters |-> <<>>]}
CoreUUIDs == {[n |-> 2], [n |-> 1001]}
CoreBlobs == {[n |-> 2, size |-> 8], [n |-> 1, size |-> 9]}

\* No goroutine is inside requestCommand.
IdleGoroutines ==
  [g \in ObjIds |->
     [pc |-> "idle", resp |-> NoResp, usage |-> 0, isComplete |-> FALSE, i |-> 0,
      err |-> NoErr, data |-> <<>>]]

\* NewRandom: no snapshot yet, no operation in progress.
Init ==
  /\ heap = [i \in ObjIds |-> ZeroUsage]
  /\ rUsage = 0
  /\ seen = {}
  /\ pc = "idle"
  /\ posts = 0
  /\ call = [op |-> "NewRandom", args |-> <<>>, sent |-> FALSE, resp |-> NoResp, merged |-> FALSE]
  /\ ret = NoRet("NewRandom")
  /\ twice = FALSE
  /\ gor = IdleGoroutines

Next ==
  \/ GenerateIntegers(CoreIntegers, Responses)
  \/ GenerateDecimalFractions(CoreDecimalFractions, FewResponses)
  \/ GenerateGaussians(CoreGaussians, FewResponses)
  \/ GenerateStrings(CoreStrings, FewResponses)
  \/ GenerateUUIDs(CoreUUIDs, FewResponses)
  \/ GenerateBlobs(CoreBlobs, FewResponses)
  \/ GetUsage
  \/ Usage
  \/ GetUsageQuery(Responses)

Spec == Init /\ [][Next]_vars

(***************************************************************************)
(* The generators at the edges of their parameter ranges.                  *)
(***************************************************************************)
\* The two values at a range's ends and the two just outside it.
Around(lo, hi) == {lo - 1, lo, hi, hi + 1}

EdgeIntegers ==
  {[n |-> n, min |-> 0, max |-> 5] : n \in Around(1, 10000)}
  \cup {[n |-> 2, min |-> m, max |-> 5] : m \in Around(-1000000000, 1000000000)}
  \cup {[n |-> 2, min |-> 0, max |-> m] : m \in Around(-1000000000, 1000000000)}

EdgeDecimalFractions ==
  {[n |-> n, decimalPlaces |-> 2] : n \in Around(1, 10000)}
  \cup {[n |-> 2, decimalPlaces |-> d] : d \in Around(1, 20)}

EdgeGaussians ==
  {[n |-> n, mean |-> 0, standardDeviation |-> 1, significantDigits |-> 2] : n \in Around(1, 10000)}
  \cup {[n |-> 2, mean |-> m, standardDeviation |-> 1, significantDigits |-> 2] :
          m \in Around(-1000000, 1000000)}
  \cup {[n |-> 2, mean |-> 0, standardDeviation |-> d, significantDigits |-> 2] :
          d \in Around(-1000000, 1000000)}
  \cup {[n |-> 2, mean |-> 0, standardDeviation |-> 1, significantDigits |-> d] : d \in Around(2, 20)}

\* A character set of l characters.
Chars(l) == [i \in 1..l |-> "a"]

EdgeStrings ==
  {[n |-> n, length |-> 1, characters |-> sA] : n \in Around(1, 10000)}
  \cup {[n |-> 2, length |-> l, characters |-> sA] : l \in Around(1, 20)}
  \cup {[n |-> 2, length |-> 1, characters |-> Chars(l)] : l \in Around(1, 80)}

EdgeUUIDs == {[n |-> n] : n \in Around(1, 1000)}

EdgeBlobs ==
  {[n |-> n, size |-> 8] : n \in Around(1, 100)}
  \cup {[n |-> 1, size |-> 9]}
  \cup {[n |-> 2, size |-> z] : z \in Around(1, 1048576) \cup {7, 8, 9, 1048568, 1048584}}

GenResponses ==
  FewResponses
  \cup {OkResp(Obj(ResultObj(QPart(AllFields), GoodRandom)), Null),
        OkResp(Obj(ResultObj(QPart({"bitsLeft"}), GoodRandom)), Null)}

NextGen ==
  \/ GenerateIntegers(EdgeIntegers, GenResponses)
  \/ GenerateDecimalFractions(EdgeDecimalFractions, GenResponses)
  \/ GenerateGaussians(EdgeGaussians, GenResponses)
  \/ GenerateStrings(EdgeStrings, GenResponses)
  \/ GenerateUUIDs(EdgeUUIDs, GenResponses)
  \/ GenerateBlobs(EdgeBlobs, GenResponses)

SpecGen == Init /\ [][NextGen]_vars

(***************************************************************************)
(* The concurrent client: two goroutines, each calling requestCommand once *)
(* on the same Random.  Nothing in the code orders their accesses to       *)
(* r.usage and to the Usage object, so every statement of                  *)
(* parseAndSaveUsage is a step of its own.  The results carry numeric      *)
(* quota fields only: a word-sized store is not torn.                      *)
(***************************************************************************)
Goroutines == ObjIds

ConcResponses ==
  {OkResp(Obj(ResultObj(QPart({"bitsLeft"}), GoodRandom)), Null),
   OkResp(Obj(ResultObj(QPart({"requestsLeft"}), GoodRandom)), Null),
   OkResp(Obj(ResultObj([QPart({"requestsLeft"}) EXCEPT !["bitsLeft"] = Num(250)], Null)), Null),
   OkResp(Null, ErrObj(Num(202), Str(sInvalidKey)))}

\* The result object goroutine g is merging.
JsonOf(g) == gor[g].resp.body.result.o

\* requestCommand up to the call of parseAndSaveUsage: invokeRequest.
Call(g) ==
  /\ gor[g].pc = "idle"
  /\ \E resp \in ConcResponses :
       \E inv \in {invokeRequest(resp)} :
         gor' = [gor EXCEPT ![g] =
                   IF inv.err # NoErr
                     THEN [@ EXCEPT !.pc = "done", !.resp = resp, !.err = inv.err]
                     ELSE [@ EXCEPT !.pc = "enter", !.resp = resp]]
  /\ UNCHANGED <<heap, rUsage, seen, pc, posts, call, ret, twice>>

\* usage := &Usage{}; if r.usage != nil { usage = r.usage }; isComplete := true
LoadUsage(g) ==
  /\ gor[g].pc = "enter"
  /\ gor' = [gor EXCEPT ![g].pc = "fields", ![g].i = 1, ![g].isComplete = TRUE,
                        ![g].usage = IF rUsage # 0 THEN rUsage ELSE NewId(g)]
  /\ heap' = IF rUsage # 0 THEN heap ELSE [heap EXCEPT ![NewId(g)] = ZeroUsage]
  /\ UNCHANGED <<rUsage, seen, pc, posts, call, ret, twice>>

\* The block of quota field number i: one store into the Usage object, or
\* isComplete = false.
MergeField(g) ==
  /\ gor[g].pc = "fields"
  /\ \E st \in {SetQuotaField([u |-> heap[gor[g].usage], isComplete |-> gor[g].isComplete,
                               panicked |-> FALSE],
                              QuotaFields[gor[g].i], JsonOf(g)[QuotaFields[gor[g].i]])} :
       /\ heap' = [heap EXCEPT ![gor[g].usage] = st.u]
       /\ gor' = [gor EXCEPT ![g].isComplete = st.isComplete,
                             ![g].i = gor[g].i + 1,
                             ![g].pc = IF st.panicked THEN "panic"
                                       ELSE IF gor[g].i = Len(QuotaFields) THEN "isComplete"
                                       ELSE "fields"]
  /\ UNCHANGED <<rUsage, seen, pc, posts, call, ret, twice>>

\* usage.isComplete = isComplete
StoreIsComplete(g) ==
  /\ gor[g].pc = "isComplete"
  /\ heap' = [heap EXCEPT ![gor[g].usage].isComplete = gor[g].isComplete]
  /\ gor' = [gor EXCEPT ![g].pc = "publish"]
  /\ UNCHANGED <<rUsage, seen, pc, posts, call, ret, twice>>

\* r.usage = usage
StoreUsage(g) ==
  /\ gor[g].pc = "publish"
  /\ rUsage' = gor[g].usage
  /\ gor' = [gor EXCEPT ![g].pc = "data"]
  /\ UNCHANGED <<heap, seen, pc, posts, call, ret, twice>>

\* The rest of requestCommand: the random block and its data array.
ExtractData(g) ==
  /\ gor[g].pc = "data"
  /\ \E random \in {jsonMap(JsonOf(g), "random")} :
       gor' = [gor EXCEPT ![g] =
                 IF random.err # NoErr THEN [@ EXCEPT !.pc = "done", !.err = random.err]
                 ELSE IF random.map["data"].t # "arr" THEN [@ EXCEPT !.pc = "panic"]
                 ELSE [@ EXCEPT !.pc = "done", !.data = random.map["data"].a]]
  /\ UNCHANGED <<heap, rUsage, seen, pc, posts, call, ret, twice>>

\* A snapshot left by an earlier call, which carried the two totals.
PriorSnapshot ==
  parseAndSaveUsage([i \in ObjIds |-> ZeroUsage], 0,
                    ResultObj(QPart({"totalBits", "totalRequests"}), GoodRandom), 1).heap[1]

\* Either a fresh client, or one whose cache an earlier call has filled.
InitConc ==
  /\ rUsage \in {0, 1}
  /\ heap = [i \in ObjIds |-> IF i = 1 /\ rUsage = 1 THEN PriorSnapshot ELSE ZeroUsage]
  /\ seen = IF rUsage = 1 THEN {"totalBits", "totalRequests"} ELSE {}
  /\ pc = "idle"
  /\ posts = 0
  /\ call = [op |-> "NewRandom", args |-> <<>>, sent |-> FALSE, resp |-> NoResp, merged |-> FALSE]
  /\ ret = NoRet("NewRandom")
  /\ twice = FALSE
  /\ gor = IdleGoroutines

NextConc ==
  \E g \in Goroutines :
    \/ Call(g)
    \/ LoadUsage(g)
    \/ MergeField(g)
    \/ StoreIsComplete(g)
    \/ StoreUsage(g)
    \/ ExtractData(g)

SpecConc == InitConc /\ [][NextConc]_vars

(***************************************************************************)
(* Properties of the usage cache.                                          *)
(***************************************************************************)
\* The cached snapshot (the zero Usage while r.usage is nil).
Cached == IF rUsage = 0 THEN ZeroUsage ELSE heap[rUsage]

\* C1: completeness never regresses: once the cached snapshot's isComplete
\* flag is true, no later step (in particular no later merge of a result
\* lacking some quota field) leaves it false.
C1_CompletenessNeverRegresses ==
  [][CacheComplete(heap, rUsage) => CacheComplete(heap', rUsage')]_vars

\* C2: completeness is cumulative: isComplete is true exactly when each of
\* the six quota fields was present in at least one of the merged results.
C2_CompleteIffAllSeen ==
  (pc # "panic" /\ rUsage # 0) => (heap[rUsage].isComplete <=> seen = AllFields)

\* C3: one call of GetUsage issues a single dedicated query, merges it and
\* returns, also when the merged snapshot is still incomplete.
C3_GetUsageSingleQuery ==
  (call.op = "GetUsage" /\ posts >= 1 /\ pc # "panic")
    => (posts = 1 /\ pc = "idle" /\ ret.returned)

(***************************************************************************)
(* Properties of the generators and of the envelope decoding.              *)
(***************************************************************************)
GeneratorOps ==
  {"GenerateIntegers", "GenerateDecimalFractions", "GenerateGaussians",
   "GenerateStrings", "GenerateUUIDs", "GenerateBlobs"}

Between(x, lo, hi) == lo <= x /\ x <= hi

\* The parameter table of the external interface.
InTable(op, a) ==
  CASE op = "GenerateIntegers" ->
         Between(a.n, 1, 10000) /\ Between(a.min, -1000000000, 1000000000)
         /\ Between(a.max, -1000000000, 1000000000)
    [] op = "GenerateDecimalFractions" ->
         Between(a.n, 1, 10000) /\ Between(a.decimalPlaces, 1, 20)
    [] op = "GenerateGaussians" ->
         Between(a.n, 1, 10000) /\ Between(a.mean, -1000000, 1000000)
         /\ Between(a.standardDeviation, -1000000, 1000000)
         /\ Between(a.significantDigits, 2, 20)
    [] op = "GenerateStrings" ->
         Between(a.n, 1, 10000) /\ Between(a.length, 1, 20)
         /\ Between(Len(a.characters), 1, 80)
    [] op = "GenerateUUIDs" -> Between(a.n, 1, 1000)
    [] op = "GenerateBlobs" ->
         Between(a.n, 1, 100) /\ Between(a.size, 1, 1048576)
         /\ a.size % 8 = 0

\* C5: a generator called with an argument outside the parameter table
\* returns ErrParamRange, issues no HTTP request and leaves the usage cache
\* as it was.
C5_ValidationBeforeNetwork ==
  [][(pc = "idle" /\ call'.op \in GeneratorOps /\ ~InTable(call'.op, call'.args))
       => /\ ret' = Returns(call'.op, ErrParamRange, <<>>, ZeroUsage)
          /\ pc' = "idle"
          /\ posts' = 0
          /\ ~call'.sent
          /\ heap' = heap
          /\ rUsage' = rUsage]_vars

\* GenerateBlobs(1, 9) was refused while a snapshot was cached.
C5_Witness ==
  /\ call.op = "GenerateBlobs"
  /\ call.args = [n |-> 1, size |-> 9]
  /\ ret.returned
  /\ ret.err = ErrParamRange
  /\ posts = 0
  /\ rUsage # 0

\* s occurs in text as a contiguous piece.
Contains(text, s) ==
  \E i \in 0..(Len(text) - Len(s)) : SubSeq(text, i + 1, i + Len(s)) = s

\* The number k/2 in plain decimal notation.
Decimal(k) ==
  LET a == IF k < 0 THEN -k ELSE k
  IN (IF k < 0 THEN <<"-">> ELSE <<>>) \o Digits(a \div 2)
     \o (IF a % 2 = 1 THEN <<".", "5">> ELSE <<>>)

\* No object-valued result, and an error object with a numeric code and a
\* string message.
IsErrorEnvelope(resp) ==
  /\ resp.net = "ok"
  /\ resp.body.result.t # "obj"
  /\ resp.body.error.t = "obj"
  /\ resp.body.error.o.code.t = "num"
  /\ resp.body.error.o.message.t = "str"

\* C6: a well-formed error envelope with code c and message m makes the
\* generator return a non-nil error whose text embeds c and m unchanged,
\* with no data and with the usage cache not modified.
C6_APIErrorVerbatim ==
  [][(pc = "idle" /\ call'.op \in GeneratorOps /\ call'.sent /\ IsErrorEnvelope(call'.resp))
       => /\ pc' = "idle"
          /\ ret'.returned
          /\ ret'.err # NoErr
          /\ Contains(ret'.err.text, Decimal(call'.resp.body.error.o.code.twice))
          /\ Contains(ret'.err.text, call'.resp.body.error.o.message.s)
          /\ ret'.data = <<>>
          /\ heap' = heap
          /\ rUsage' = rUsage]_vars

\* The random member of a result is absent or no object, or its data member
\* is absent or no array.
MalformedRandom(o) ==
  \/ o["random"].t # "obj"
  \/ o["random"].o.data.t # "arr"

\* C7: a successful result whose random block or data array is missing or
\* malformed makes requestCommand return ErrJSONFormat; the program is not
\* aborted.
C7_MalformedDataIsFormatError ==
  (/\ call.op \in GeneratorOps
   /\ call.sent
   /\ call.resp.net = "ok"
   /\ call.resp.body.result.t = "obj"
   /\ call.merged
   /\ MalformedRandom(call.resp.body.result.o))
    => (pc = "idle" /\ ret.returned /\ ret.err = ErrJSONFormat)

\* The value of quota field f in snapshot u.
FieldOf(u, f) ==
  CASE f = "status" -> u.Status
    [] f = "creationTime" -> u.CreationTime
    [] f = "bitsLeft" -> u.BitsLeft
    [] f = "requestsLeft" -> u.RequestLeft
    [] f = "totalBits" -> u.TotalBits
    [] f = "totalRequests" -> u.TotalRequests

\* The value a well-formed JSON value v of quota field f stands for: the
\* string, the instant (date and time of day), or the number cut to an int.
Carried(f, v) ==
  CASE f = "status" -> v.s
    [] f = "creationTime" -> <<v.s[1], v.s[3]>>
    [] OTHER -> ToInt(v.twice)

\* C8: a merge overwrites exactly the quota fields present in the result and
\* leaves every other field at its previous value (the zero value when there
\* was no snapshot).
C8_MergeFieldWise ==
  [][call'.merged
       => \A f \in AllFields :
            FieldOf(heap'[rUsage'], f) =
              IF call'.resp.body.result.o[f].t # "null"
                THEN Carried(f, call'.resp.body.result.o[f])
                ELSE FieldOf(Cached, f)]_vars

\* First only bitsLeft = 100 was merged, then only requestsLeft = 50.
C8_Witness ==
  /\ call.merged
  /\ Present(call.resp.body.result.o) = {"requestsLeft"}
  /\ seen = {"bitsLeft", "requestsLeft"}
  /\ rUsage # 0
  /\ heap[rUsage].BitsLeft = 100
  /\ heap[rUsage].RequestLeft = 50

\* Goroutine g's call got a result object, which it merged.
MergedBy(g) == gor[g].pc = "done" /\ gor[g].resp.net = "ok" /\ gor[g].resp.body.result.t = "obj"

\* C4: concurrent merges lose no update: once both goroutines have returned
\* from requestCommand, every quota field that a merged result carried
\* holds a value that one of those results carried, whatever the
\* interleaving and also when r.usage was nil before both.
C4_NoLostUpdate ==
  (\A g \in Goroutines : gor[g].pc = "done")
    => \A f \in {"bitsLeft", "requestsLeft"} :
         (\E g \in Goroutines : MergedBy(g) /\ JsonOf(g)[f].t # "null")
           => \E g \in Goroutines :
                /\ MergedBy(g)
                /\ JsonOf(g)[f].t # "null"
                /\ FieldOf(Cached, f) = Carried(f, JsonOf(g)[f])

\* C9: merging the result that was merged just before leaves the snapshot,
\* its isComplete flag included, as the first merge left it.
C9_MergeIdempotent ==
  [][twice' => (heap' = heap /\ rUsage' = rUsage)]_vars

\* The same result, carrying some quota field, was merged twice in a row.
C9_Witness ==
  /\ twice
  /\ call.merged
  /\ Present(call.resp.body.result.o) # {}
  /\ rUsage # 0

\* invokeRequest fails on this response: a transport, read or parse failure,
\* an API error, or a body with neither a result nor an error object.
InvokeFails(resp) == resp.net # "ok" \/ resp.body.result.t # "obj"

\* C10: GetUsage swallows only the format error of the missing random block:
\* when its dedicated query fails in invokeRequest, GetUsage returns that
\* error with an empty Usage value and sends no further query.
C10_OnlyMissingRandomSwallowed ==
  (call.op = "GetUsage" /\ call.sent /\ InvokeFails(call.resp))
    => (/\ pc = "idle"
        /\ ret.returned
        /\ ret.err # NoErr
        /\ ret.usage = ZeroUsage
        /\ posts = 1)

(***************************************************************************)
(* Properties of what the operations return.                               *)
(***************************************************************************)
\* C11: a GenerateIntegers(n, min, max) call with arguments inside the
\* parameter table that returns without error returns exactly n values,
\* each within [min, max], whatever data array the response contains.
C11_ExactlyNInRange ==
  (/\ call.op = "GenerateIntegers"
   /\ InTable(call.op, call.args)
   /\ ret.op = "GenerateIntegers"
   /\ ret.returned
   /\ ret.err = NoErr)
    => /\ Len(ret.data) = call.args.n
       /\ \A i \in 1..Len(ret.data) : Between(ret.data[i], call.args.min, call.args.max)

\* The JSON type a generator asserts each data element to be.
WantedType(op) ==
  IF op \in {"GenerateStrings", "GenerateUUIDs", "GenerateBlobs"} THEN "str" ELSE "num"

\* The result of the call's response has a data array one of whose elements
\* is not of the type the operation expects.
WrongShapeElement(c) ==
  /\ c.sent
  /\ c.resp.net = "ok"
  /\ c.resp.body.result.t = "obj"
  /\ c.resp.body.result.o["random"].t = "obj"
  /\ c.resp.body.result.o["random"].o.data.t = "arr"
  /\ \E i \in 1..Len(c.resp.body.result.o["random"].o.data.a) :
       c.resp.body.result.o["random"].o.data.a[i].t # WantedType(c.op)

\* C12: a data element of the wrong shape yields an error value, not a
\* crash: a generator whose successful response holds a data element that is
\* not of its declared scalar type returns an error to the caller.
C12_WrongShapeIsError ==
  (call.op \in GeneratorOps /\ call.merged /\ WrongShapeElement(call))
    => (pc = "idle" /\ ret.returned /\ ret.err # NoErr)

\* The request of this response fails in a way the caller must be told of:
\* a transport failure, an unreadable or undecodable body, an API error.
ReportedFailure(resp) == resp.net # "ok" \/ IsErrorEnvelope(resp)

\* C13: no operation retries: a step that runs requestCommand issues at most
\* one HTTP POST, and when that request fails (transport failure, unreadable
\* or undecodable body, API error) the operation returns that failure from
\* the same invocation, with no second request and the cache untouched.
C13_NoRetry ==
  [][call'.sent
       => /\ posts' <= (IF pc = "GetUsage" THEN posts ELSE 0) + 1
          /\ ReportedFailure(call'.resp)
               => /\ pc' = "idle"
                  /\ ret'.returned
                  /\ ret'.err.kind = (IF call'.resp.net # "ok" THEN call'.resp.net ELSE "api")
                  /\ heap' = heap
                  /\ rUsage' = rUsage]_vars

\* GetUsage met a transport failure on its second query and returned it.
C13_Witness ==
  /\ call.op = "GetUsage"
  /\ call.sent
  /\ call.resp.net = "transport"
  /\ posts = 2
  /\ pc = "idle"
  /\ ret.returned
  /\ ret.err = NetErr("transport")

\* C14: response decoding follows the result-then-error-then-format-error
\* order: a body whose result is an object is taken as the result (also when
\* an error member is present), so the merge is entered; otherwise an error
\* object with a numeric code and a string message gives an API error;
\* otherwise (neither member is a usable object, or the error object lacks
\* code or message) the call returns ErrJSONFormat.
C14_DecodingOrder ==
  (call.op \in GeneratorOps /\ call.sent /\ call.resp.net = "ok")
    => IF call.resp.body.result.t = "obj"
         THEN (call.merged \/ pc = "panic") /\ ret.err.kind # "api"
       ELSE IF IsErrorEnvelope(call.resp)
         THEN pc = "idle" /\ ret.returned /\ ret.err.kind = "api"
       ELSE pc = "idle" /\ ret.returned /\ ret.err = ErrJSONFormat

\* A quota field of result o has the wrong shape: a status that is no
\* string, a creationTime that is no string or no timestamp, a counter that
\* is no number.
MalformedUsage(o) ==
  \/ o["status"].t \notin {"null", "str"}
  \/ o["creationTime"].t \notin {"null", "str"}
  \/ o["creationTime"].t = "str" /\ o["creationTime"].s \notin {sCreated, sCreatedT}
  \/ \E f \in {"bitsLeft", "requestsLeft", "totalBits", "totalRequests"} :
       o[f].t \notin {"null", "num"}

\* C15: every generator call ends in a result or an error value: a
\* successful response whose piggybacked usage fields are malformed, with a
\* well-formed data array, does not abort the call.
C15_MalformedUsageNoAbort ==
  (/\ call.op \in GeneratorOps
   /\ call.sent
   /\ call.resp.net = "ok"
   /\ call.resp.body.result.t = "obj"
   /\ MalformedUsage(call.resp.body.result.o)
   /\ ~MalformedRandom(call.resp.body.result.o)
   /\ ~WrongShapeElement(call))
    => (pc = "idle" /\ ret.returned)

\* C16: Usage() serves from the cache when it can: with a complete cached
\* snapshot it returns a copy of it with a nil error, issues no HTTP request
\* and leaves the cache unchanged; only when the cache is absent or
\* incomplete does it start a dedicated getUsage query.
C16_UsageServesFromCache ==
  [][(pc = "idle" /\ call'.op = "Usage")
       => IF rUsage # 0 /\ heap[rUsage].isComplete
            THEN /\ pc' = "idle"
                 /\ ret'.returned
                 /\ ret'.err = NoErr
                 /\ ret'.usage = heap[rUsage]
                 /\ posts' = 0
                 /\ ~call'.sent
                 /\ heap' = heap
                 /\ rUsage' = rUsage
            ELSE /\ pc' = "GetUsage"
                 /\ ~ret'.returned]_vars

\* Usage() returned the complete cached snapshot without a request.
C16_Witness ==
  /\ call.op = "Usage"
  /\ ~call.sent
  /\ posts = 0
  /\ pc = "idle"
  /\ ret.returned
  /\ ret.err = NoErr
  /\ rUsage # 0
  /\ ret.usage = heap[rUsage]
  /\ ret.usage.isComplete
  /\ ret.usage.BitsLeft = 100

\* C17: the merge runs after every successful transport call and before the
\* data extraction, and never otherwise: when invokeRequest succeeds, the
\* result's quota fields are merged (unless the merge itself aborts), also
\* when requestCommand then fails for want of a random block; when
\* invokeRequest fails, nothing is merged and the cache is unchanged.
C17_MergeAfterTransport ==
  [][call'.sent
       => IF InvokeFails(call'.resp)
            THEN ~call'.merged /\ heap' = heap /\ rUsage' = rUsage
            ELSE \/ pc' = "panic" /\ ~call'.merged
                 \/ /\ call'.merged
                    /\ rUsage' # 0
                    /\ \A f \in Present(call'.resp.body.result.o) :
                         FieldOf(heap'[rUsage'], f) = Carried(f, call'.resp.body.result.o[f])]_vars

\* GenerateIntegers got a result with all six quota fields and no random
\* block: it returned the format error, and the fields were merged.
C17_Witness ==
  /\ call.op = "GenerateIntegers"
  /\ call.sent
  /\ call.resp.net = "ok"
  /\ call.resp.body.result.t = "obj"
  /\ call.resp.body.result.o["random"].t = "null"
  /\ Present(call.resp.body.result.o) = AllFields
  /\ ret.returned
  /\ ret.err = ErrJSONFormat
  /\ call.merged
  /\ rUsage # 0
  /\ heap[rUsage].BitsLeft = 100
  /\ heap[rUsage].isComplete

\* C18: Usage() and GetUsage() never hand out an incomplete snapshot as a
\* success: when either has returned with a nil error, the returned value
\* has isComplete true and equals the cached snapshot; when it has returned
\* with an error, the returned value is the empty Usage.
C18_NoIncompleteSuccess ==
  (call.op \in {"Usage", "GetUsage"} /\ ret.returned)
    => IF ret.err = NoErr
         THEN /\ ret.usage.isComplete
              /\ rUsage # 0
              /\ ret.usage = heap[rUsage]
         ELSE ret.usage = ZeroUsage

\* GetUsage returned a complete snapshot that took two queries to obtain.
C18_Witness ==
  /\ call.op = "GetUsage"
  /\ call.sent
  /\ posts = 2
  /\ pc = "idle"
  /\ ret.returned
  /\ ret.err = NoErr
  /\ ret.usage.isComplete
  /\ ret.usage.Status = sPaused

====
